---------------------------- MODULE Spec2Model ----------------------------
(***************************************************************************)
(* Jexl (JSON Expression Language): the evaluator and program runner, the  *)
(* macro expander, and the grammar of programs.                            *)
(*                                                                         *)
(* A JSON value is a record of one shape, so that any two values compare:  *)
(*   t  : "str" "num" "bool" "null" "arr" "obj", and the host's own        *)
(*        "undef" (undefined) and "nan" (NaN)                              *)
(*   s  : the characters of a string      n : a number, or 0/1 of a bool   *)
(*   ks : the keys of an object, in insertion order                        *)
(*   vs : the values of an object, or the elements of a sequence           *)
(***************************************************************************)
EXTENDS Integers, Sequences, FiniteSets, TLC

VARIABLES
    pc,        \* where runProgram is: "start", "running", "done", "failed"
    prog,      \* the program document handed to runProgram
    genv,      \* the global Environment built by createGlobalEnv
    out,       \* what console.log has printed, one entry per call
    idx,       \* how many top-level expressions the loop has evaluated
    last,      \* the outcome of the latest evaluate call of the loop
    error,     \* the error runProgram threw (kind "none" while there is none)
    xmacros,   \* the macro map handed to expand
    xin,       \* the expression handed to expand
    xout,      \* what expand returned
    xpc,       \* "idle", "returned", "raised" (TypeError), "overflow" (no return)
    gin,       \* the program document handed to the grammar check
    gerrors,   \* the paths /program/i that Value.Errors reported, as the indices i
    gpc        \* "idle", "checked"

vars == <<pc, prog, genv, out, idx, last, error, xmacros, xin, xout, xpc,
          gin, gerrors, gpc>>

----------------------------------------------------------------------------
(* JSON values *)

Str(s) == [t |-> "str", s |-> s, n |-> 0, ks |-> <<>>, vs |-> <<>>]
Num(n) == [t |-> "num", s |-> "", n |-> n, ks |-> <<>>, vs |-> <<>>]
Bool(b) == [t |-> "bool", s |-> "", n |-> IF b THEN 1 ELSE 0, ks |-> <<>>, vs |-> <<>>]
Null == [t |-> "null", s |-> "", n |-> 0, ks |-> <<>>, vs |-> <<>>]
Undef == [t |-> "undef", s |-> "", n |-> 0, ks |-> <<>>, vs |-> <<>>]
NaN == [t |-> "nan", s |-> "", n |-> 0, ks |-> <<>>, vs |-> <<>>]
Arr(vs) == [t |-> "arr", s |-> "", n |-> 0, ks |-> <<>>, vs |-> vs]
Obj(ks, vs) == [t |-> "obj", s |-> "", n |-> 0, ks |-> ks, vs |-> vs]
Obj1(k, v) == Obj(<<k>>, <<v>>)

\* typeof expr is "string", "number" or "boolean", or expr === null
IsPrimitive(v) == v.t \in {"str", "num", "bool", "null", "nan"}

\* typeof v === "object" && v !== null: objects and sequences alike
IsObjectLike(v) == v.t \in {"obj", "arr"}

\* String(i) for the index of a sequence element
IndexKey(i) ==
    CASE i = 0 -> "0" [] i = 1 -> "1" [] i = 2 -> "2" [] i = 3 -> "3"
      [] i = 4 -> "4" [] OTHER -> "5"

\* Object.keys(v): an object's keys, a sequence's indices as strings
Keys(v) ==
    IF v.t = "obj" THEN v.ks
    ELSE IF v.t = "arr" THEN [i \in 1..Len(v.vs) |-> IndexKey(i - 1)]
    ELSE <<>>

\* k in v
HasKey(v, k) == \E i \in 1..Len(Keys(v)) : Keys(v)[i] = k

\* v[k]: undefined when v has no such key
Get(v, k) ==
    IF HasKey(v, k)
    THEN v.vs[CHOOSE i \in 1..Len(Keys(v)) : Keys(v)[i] = k]
    ELSE Undef

\* ToBoolean(v), the host's truthiness
Truthy(v) ==
    CASE v.t \in {"null", "undef", "nan"} -> FALSE
      [] v.t = "bool" -> v.n = 1
      [] v.t = "num" -> v.n # 0
      [] v.t = "str" -> v.s # ""
      [] OTHER -> TRUE

\* The characters of the identifiers the model uses
Chars(s) ==
    CASE s = "" -> <<>>
      [] s = "name" -> <<"n", "a", "m", "e">>
      [] s = "xy" -> <<"x", "y">>
      [] s = "body" -> <<"b", "o", "d", "y">>
      [] s = "condition" -> <<"c", "o", "n", "d", "i", "t", "i", "o", "n">>
      [] s = "integer" -> <<"i", "n", "t", "e", "g", "e", "r">>
      [] OTHER -> <<s>>


\* An array destructuring [paramName] of a string takes its first character
FirstChar(s) == IF Chars(s) = <<>> THEN Undef ELSE Str(Chars(s)[1])

----------------------------------------------------------------------------
(* Errors: what a throw carries *)

Err(kind, name, expected, actual) ==
    [kind |-> kind, name |-> name, expected |-> expected, actual |-> actual]
NoErr == Err("none", "", 0, 0)
TypeError == Err("TypeError", "", 0, 0)

\* A Map key: a name is a string in every program the grammar accepts; any
\* other key (undefined, a number) is kept apart from the strings by its tag
NameKey(v) == IF v.t = "str" THEN v.s ELSE "#" \o v.t

----------------------------------------------------------------------------
(* Environment: a heap of frames, a frame named by its index; parent 0 is null *)

EmptyMap == [k \in {} |-> Undef]

NewEnvironment(parent) == [parent |-> parent, vars |-> EmptyMap, functions |-> EmptyMap]

RECURSIVE getVar(_, _, _)
getVar(h, env, name) ==
    IF name \in DOMAIN h[env].vars
    THEN [found |-> TRUE, v |-> h[env].vars[name], at |-> env]
    ELSE IF h[env].parent # 0
    THEN getVar(h, h[env].parent, name)
    ELSE [found |-> FALSE, v |-> Undef, at |-> 0]

\* A variant of setVar: assigns in the nearest frame that binds the name
setVarWhereBound(h, env, name, value) ==
    LET at == IF getVar(h, env, name).found THEN getVar(h, env, name).at ELSE env
    IN [h EXCEPT ![at].vars = (name :> value) @@ h[at].vars]

setVar(h, env, name, value) ==
    [h EXCEPT ![env].vars = (name :> value) @@ h[env].vars]

defineFunction(h, env, name, fn) ==
    [h EXCEPT ![env].functions = (name :> fn) @@ h[env].functions]

RECURSIVE getFunction(_, _, _)
getFunction(h, env, name) ==
    IF name \in DOMAIN h[env].functions
    THEN [found |-> TRUE, fn |-> h[env].functions[name], at |-> env]
    ELSE IF h[env].parent # 0
    THEN getFunction(h, h[env].parent, name)
    ELSE [found |-> FALSE, fn |-> Undef, at |-> 0]

----------------------------------------------------------------------------
(* Built-in functions *)

BuiltinNames ==
    {"add", "subtract", "multiply", "divide", "less", "greater", "equals",
     "print", "concat"}

BuiltinFn(name) == [builtin |-> TRUE, name |-> name, params |-> Undef, body |-> Undef]
UserFn(params, body) == [builtin |-> FALSE, name |-> "", params |-> params, body |-> body]

\* A result the model keeps as a term: a string built by the host (concat, or
\* + on a string) or a fraction
Sym(op, args) == [t |-> "sym", s |-> op, n |-> 0, ks |-> <<>>, vs |-> args]

ArgAt(args, i) == IF i <= Len(args) THEN args[i] ELSE Undef

Arith(op, a, b) ==
    IF a.t = "num" /\ b.t = "num"
    THEN CASE op = "add" -> Num(a.n + b.n)
           [] op = "subtract" -> Num(a.n - b.n)
           [] op = "multiply" -> Num(a.n * b.n)
           [] op = "divide" /\ b.n = 0 /\ a.n = 0 -> NaN
           [] op = "divide" /\ b.n > 0 /\ a.n >= 0 /\ a.n % b.n = 0 -> Num(a.n \div b.n)
           [] OTHER -> Sym(op, <<a, b>>)
    ELSE IF {a.t, b.t} \subseteq {"num", "undef", "nan"}
    THEN NaN
    ELSE Sym(op, <<a, b>>)

Compare(op, a, b) ==
    IF a.t = "num" /\ b.t = "num"
    THEN Bool(IF op = "less" THEN a.n < b.n ELSE a.n > b.n)
    ELSE IF {a.t, b.t} \subseteq {"num", "undef", "nan"}
    THEN Bool(FALSE)
    ELSE Sym(op, <<a, b>>)

\* a === b on primitives
StrictEquals(a, b) == Bool(a = b /\ a.t # "nan")

\* func(...evaluatedArgs): the state after the call and the value returned
ApplyBuiltin(name, args, s) ==
    LET a == ArgAt(args, 1)
        b == ArgAt(args, 2)
    IN CASE name \in {"add", "subtract", "multiply", "divide"} ->
              [s |-> s, v |-> Arith(name, a, b), e |-> NoErr]
         [] name \in {"less", "greater"} ->
              [s |-> s, v |-> Compare(name, a, b), e |-> NoErr]
         [] name = "equals" ->
              [s |-> s, v |-> StrictEquals(a, b), e |-> NoErr]
         [] name = "print" ->
              [s |-> [s EXCEPT !.out = Append(@, args)], v |-> Undef, e |-> NoErr]
         [] OTHER ->
              [s |-> s, v |-> Sym("concat", args), e |-> NoErr]

----------------------------------------------------------------------------
(* Evaluator.  An evaluation threads s = [h, out, tr]: the heap of frames,   *)
(* the printed output, and a log of the frames that user-function calls      *)
(* created.  It ends in [s, v, e]: the state, the value returned and the     *)
(* error thrown (kind "none": none); what was done before a throw stays done *)

Ok(s, v) == [s |-> s, v |-> v, e |-> NoErr]
Fail(s, e) == [s |-> s, v |-> Undef, e |-> e]
Failed(r) == r.e.kind # "none"

\* A variant of SelectsThen: only boolean false and null select the else-branch
SelectsThenUnlessFalseOrNull(condResult) == condResult \notin {Bool(FALSE), Null}

\* condResult ? ... : ...
SelectsThen(condResult) == Truthy(condResult)

\* thenExpr ? evaluate(thenExpr, env) : null
BranchPresent(branch) == Truthy(branch)

\* A variant of LocalEnvParent: the frame the function was defined in
LocalEnvParentLexical(env, definedAt) == definedAt

\* new Environment(env): the parent of a call's frame, given the environment of
\* the call and the frame the function was found in
LocalEnvParent(env, definedAt) == env

\* ([paramName], idx) => ...: the name a parameter is bound under; a record is
\* not iterable and the destructuring throws
ParamName(param) ==
    CASE param.t = "str" -> [ok |-> TRUE, key |-> NameKey(FirstChar(param.s))]
      [] param.t = "arr" -> [ok |-> TRUE, key |-> NameKey(ArgAt(param.vs, 1))]
      [] OTHER -> [ok |-> FALSE, key |-> ""]

\* A variant of ArityMismatch: only too few arguments are a mismatch
ArityMismatchTooFew(params, evaluatedArgs) == Len(params.vs) > Len(evaluatedArgs)

\* func.params.length !== evaluatedArgs.length
ArityMismatch(params, evaluatedArgs) == Len(params.vs) # Len(evaluatedArgs)

\* func.params.forEach(...): binds left to right and stops at the first throw
RECURSIVE BindParams(_, _, _, _, _)
BindParams(h, env, params, evaluatedArgs, i) ==
    IF i > Len(params)
    THEN [h |-> h, e |-> NoErr]
    ELSE LET pn == ParamName(params[i])
         IN IF ~pn.ok
            THEN [h |-> h, e |-> TypeError]
            ELSE BindParams(setVar(h, env, pn.key, evaluatedArgs[i]),
                            env, params, evaluatedArgs, i + 1)

\* What the log keeps of a call: ev "frame" when the frame is created, ev "enter"
\* when the evaluation of the body starts (vars: the frame's bindings then)
CallEvent(ev, name, frame, parent, f, env, bound, args) ==
    [ev |-> ev, name |-> name, frame |-> frame, parent |-> parent,
     definedAt |-> f.at, callEnv |-> env, params |-> f.fn.params,
     vars |-> bound, args |-> args]

\* What the log keeps of a let: the frame written, the name, the value, and the
\* heap before the value was evaluated and after the write
LetEvent(env, name, value, before, after) ==
    [ev |-> "let", frame |-> env, name |-> name, value |-> value,
     before |-> before, after |-> after]

RECURSIVE evaluate(_, _, _, _)
RECURSIVE EvaluateAll(_, _, _, _)
RECURSIVE EvaluateDo(_, _, _, _, _)

\* args.map((arg) => evaluate(arg, env)): left to right, up to the first throw
EvaluateAll(exprs, env, s, depth) ==
    IF exprs = <<>>
    THEN [s |-> s, vs |-> <<>>, e |-> NoErr]
    ELSE LET r == evaluate(Head(exprs), env, s, depth)
         IN IF Failed(r)
            THEN [s |-> r.s, vs |-> <<>>, e |-> r.e]
            ELSE LET rest == EvaluateAll(Tail(exprs), env, r.s, depth)
                 IN [s |-> rest.s, vs |-> <<r.v>> \o rest.vs, e |-> rest.e]

\* for (const e of doExpr.do) result = evaluate(e, env)
EvaluateDo(exprs, env, s, depth, result) ==
    IF exprs = <<>>
    THEN Ok(s, result)
    ELSE LET r == evaluate(Head(exprs), env, s, depth)
         IN IF Failed(r) THEN r ELSE EvaluateDo(Tail(exprs), env, r.s, depth, r.v)

\* The call of a user function: frame, arity check, binding, body
CallUser(funcName, f, env, s, evaluatedArgs, depth) ==
    LET frame == Len(s.h) + 1
        parent == LocalEnvParent(env, f.at)
        h1 == Append(s.h, NewEnvironment(parent))
        s1 == [s EXCEPT !.h = h1,
                        !.tr = Append(@, CallEvent("frame", funcName, frame, parent,
                                                   f, env, EmptyMap, evaluatedArgs))]
    IN IF f.fn.params.t # "arr"
       THEN Fail(s1, TypeError)
       ELSE IF ArityMismatch(f.fn.params, evaluatedArgs)
       THEN Fail(s1, Err("ArityMismatch", funcName,
                         Len(f.fn.params.vs), Len(evaluatedArgs)))
       ELSE LET b == BindParams(h1, frame, f.fn.params.vs, evaluatedArgs, 1)
            IN IF b.e.kind # "none"
               THEN Fail([s1 EXCEPT !.h = b.h], b.e)
               ELSE IF depth = 0
               THEN Fail([s1 EXCEPT !.h = b.h], Err("RangeError", funcName, 0, 0))
               ELSE evaluate(f.fn.body, frame,
                             [s1 EXCEPT !.h = b.h,
                                        !.tr = Append(@, CallEvent("enter", funcName,
                                                   frame, parent, f, env,
                                                   b.h[frame].vars, evaluatedArgs))],
                             depth - 1)

\* The last case of evaluate: a function call
EvaluateCall(expr, env, s, depth) ==
    LET keys == Keys(expr)
        funcName == IF keys = <<>> THEN "#undef" ELSE keys[1]
        args == IF keys = <<>> THEN Undef ELSE expr.vs[1]
        f == getFunction(s.h, env, funcName)
    IN IF ~f.found
       THEN Fail(s, Err("UndefinedFunction", funcName, 0, 0))
       ELSE IF args.t # "arr"
       THEN Fail(s, TypeError)
       ELSE LET a == EvaluateAll(args.vs, env, s, depth)
            IN IF a.e.kind # "none"
               THEN Fail(a.s, a.e)
               ELSE IF f.fn.builtin
               THEN ApplyBuiltin(f.fn.name, a.vs, a.s)
               ELSE CallUser(funcName, f, env, a.s, a.vs, depth)

evaluate(expr, env, s, depth) ==
    IF IsPrimitive(expr) THEN Ok(s, expr)
    ELSE IF ~IsObjectLike(expr) THEN Fail(s, TypeError)
    ELSE IF HasKey(expr, "ref")
    THEN LET name == NameKey(Get(expr, "ref"))
             r == getVar(s.h, env, name)
         IN IF r.found THEN Ok(s, r.v)
            ELSE Fail(s, Err("UndefinedVariable", name, 0, 0))
    ELSE IF HasKey(expr, "let")
    THEN LET l == Get(expr, "let")
         IN IF l.t \in {"null", "undef"} THEN Fail(s, TypeError)
            ELSE LET r == evaluate(Get(l, "value"), env, s, depth)
                     name == NameKey(Get(l, "name"))
                     h2 == setVar(r.s.h, env, name, r.v)
                 IN IF Failed(r) THEN r
                    ELSE Ok([r.s EXCEPT !.h = h2,
                                        !.tr = Append(@, LetEvent(env, name, r.v, s.h, h2))],
                            r.v)
    ELSE IF HasKey(expr, "do")
    THEN LET body == Get(expr, "do")
         IN IF body.t = "arr" THEN EvaluateDo(body.vs, env, s, depth, Null)
            ELSE IF body.t = "str"
            THEN EvaluateDo([i \in 1..Len(Chars(body.s)) |-> Str(Chars(body.s)[i])],
                            env, s, depth, Null)
            ELSE Fail(s, TypeError)
    ELSE IF HasKey(expr, "if")
    THEN LET f == Get(expr, "if")
         IN IF f.t \in {"null", "undef"} THEN Fail(s, TypeError)
            ELSE LET c == evaluate(Get(f, "condition"), env, s, depth)
                     branch == IF SelectsThen(c.v) THEN Get(f, "true") ELSE Get(f, "false")
                 IN IF Failed(c) THEN c
                    ELSE IF BranchPresent(branch)
                    THEN evaluate(branch, env, c.s, depth)
                    ELSE Ok(c.s, Null)
    ELSE IF HasKey(expr, "function")
    THEN LET f == Get(expr, "function")
         IN IF f.t \in {"null", "undef"} THEN Fail(s, TypeError)
            ELSE Ok([s EXCEPT !.h = defineFunction(@, env, NameKey(Get(f, "name")),
                                        UserFn(Get(f, "params"), Get(f, "body")))],
                    Null)
    ELSE IF HasKey(expr, "macro")
    THEN Fail(s, Err("MacroNotImplemented", "", 0, 0))
    ELSE IF HasKey(expr, "import")
    THEN Fail(s, Err("ImportNotImplemented", "", 0, 0))
    ELSE EvaluateCall(expr, env, s, depth)

\* createGlobalEnv(): one frame, no parent, the builtins defined in it
createGlobalEnv ==
    [parent |-> 0, vars |-> EmptyMap,
     functions |-> [name \in BuiltinNames |-> BuiltinFn(name)]]

----------------------------------------------------------------------------
(* Macro expander.  A macro map takes a name to its MacroDef.  An expansion  *)
(* that throws yields Raised; one that nests deeper than the host's stack    *)
(* yields Overflow; either, once met, is the outcome of the whole expansion  *)

Raised == [t |-> "raised", s |-> "", n |-> 0, ks |-> <<>>, vs |-> <<>>]
Overflow == [t |-> "overflow", s |-> "", n |-> 0, ks |-> <<>>, vs |-> <<>>]
IsBottom(v) == v.t \in {"raised", "overflow"}

\* The first throw, in order, of a sequence of results; Undef when none threw
FirstBottom(results) ==
    IF \E i \in 1..Len(results) : IsBottom(results[i])
    THEN results[CHOOSE i \in 1..Len(results) :
                    /\ IsBottom(results[i])
                    /\ \A j \in 1..(i - 1) : ~IsBottom(results[j])]
    ELSE Undef

getParamName(param) ==
    IF param.t = "str" THEN param
    ELSE IF Keys(param) = <<>> THEN Undef
    ELSE Str(Keys(param)[1])

\* args[i], i counted from 0: an element, a property named by the index, a
\* character of a string, or undefined
ArgIndex(args, i) ==
    CASE args.t = "arr" -> ArgAt(args.vs, i + 1)
      [] args.t = "obj" -> Get(args, IndexKey(i))
      [] args.t = "str" -> IF i < Len(Chars(args.s)) THEN Str(Chars(args.s)[i + 1])
                            ELSE Undef
      [] OTHER -> Undef

\* params.forEach((param, i) => bindings.set(getParamName(param), args[i])):
\* a later parameter of the same name replaces the earlier binding
RECURSIVE MacroBindings(_, _, _)
MacroBindings(params, args, i) ==
    IF i = 0 THEN EmptyMap
    ELSE (NameKey(getParamName(params[i])) :> ArgIndex(args, i - 1))
             @@ MacroBindings(params, args, i - 1)

RECURSIVE substitute(_, _)

\* A variant of SubstituteValue: a sequence is copied, not mapped
SubstituteValueSkippingSequences(value, bindings) ==
    IF value.t = "obj" THEN substitute(value, bindings) ELSE value

\* One property of the rebuilt object: a sequence is mapped, an object is
\* substituted in, anything else is copied
SubstituteValue(value, bindings) ==
    IF value.t = "arr"
    THEN Arr([i \in 1..Len(value.vs) |-> substitute(value.vs[i], bindings)])
    ELSE IF IsObjectLike(value) THEN substitute(value, bindings)
    ELSE value

substitute(expr, bindings) ==
    IF IsPrimitive(expr) THEN expr
    ELSE IF IsObjectLike(expr)
    THEN IF /\ HasKey(expr, "ref")
            /\ Get(expr, "ref").t = "str"
            /\ Get(expr, "ref").s \in DOMAIN bindings
            /\ bindings[Get(expr, "ref").s] # Undef
         THEN bindings[Get(expr, "ref").s]
         ELSE Obj(Keys(expr),
                  [i \in 1..Len(expr.vs) |-> SubstituteValue(expr.vs[i], bindings)])
    ELSE expr

RECURSIVE expand(_, _, _)

\* A variant of ExpandInvocation: the substituted body is returned as it is
ExpandInvocationOnce(body, bindings, macros, fuel) == substitute(body, bindings)

\* return expand(substitute(macroDef.macro.body, bindings), macros)
ExpandInvocation(body, bindings, macros, fuel) ==
    expand(substitute(body, bindings), macros, fuel - 1)

\* One property of the rebuilt object
ExpandValue(value, macros, fuel) ==
    CASE value.t = "arr" ->
           LET rs == [i \in 1..Len(value.vs) |-> expand(value.vs[i], macros, fuel - 1)]
           IN IF \E i \in 1..Len(rs) : IsBottom(rs[i]) THEN FirstBottom(rs)
              ELSE Arr(rs)
      [] value.t # "arr" /\ IsObjectLike(value) -> expand(value, macros, fuel - 1)
      [] OTHER -> value

\* Whether expr is taken for an invocation: one key, and a macro of that name
IsInvocation(expr, macros) ==
    Len(Keys(expr)) = 1 /\ Keys(expr)[1] \in DOMAIN macros

\* fuel: the calls of expand the host's stack still has room for
expand(expr, macros, fuel) ==
    CASE fuel = 0 -> Overflow
      [] fuel # 0 /\ ~IsObjectLike(expr) -> expr
      [] fuel # 0 /\ IsObjectLike(expr) /\ IsInvocation(expr, macros) ->
           LET macroDef == macros[Keys(expr)[1]]
               args == expr.vs[1]
               params == Get(Get(macroDef, "macro"), "params")
           IN IF params.t # "arr" \/ (args.t = "null" /\ Len(params.vs) > 0)
              THEN Raised
              ELSE ExpandInvocation(Get(Get(macroDef, "macro"), "body"),
                                    MacroBindings(params.vs, args, Len(params.vs)),
                                    macros, fuel)
      [] OTHER ->
           LET rs == [i \in 1..Len(expr.vs) |-> ExpandValue(expr.vs[i], macros, fuel)]
           IN IF \E i \in 1..Len(rs) : IsBottom(rs[i]) THEN FirstBottom(rs)
              ELSE Obj(Keys(expr), rs)

----------------------------------------------------------------------------
(* Grammar: the schemas of JexlTypes, as the schema library checks them.  An  *)
(* Object schema accepts any object (not a sequence) whose listed properties *)
(* check, extra properties allowed; a Record schema checks every value        *)

Every(seq, P(_)) == \A i \in 1..Len(seq) : P(seq[i])

IsString(v) == v.t = "str"
IsLiteral(v) == v.t \in {"str", "num", "bool", "null"}

IsParam(p) ==
    \/ p.t = "str"
    \/ p.t = "obj" /\ Len(p.ks) = 1 /\ p.vs[1].t = "str"

RECURSIVE IsExpression(_)

IsVarReference(e) == e.t = "obj" /\ Get(e, "ref").t = "str"

IsLetBinding(e) ==
    /\ e.t = "obj"
    /\ Get(e, "let").t = "obj"
    /\ Get(Get(e, "let"), "name").t = "str"
    /\ IsExpression(Get(Get(e, "let"), "value"))

IsDoDef(e) ==
    e.t = "obj" /\ Get(e, "do").t = "arr" /\ Every(Get(e, "do").vs, IsExpression)

IsIfDef(e) ==
    /\ e.t = "obj"
    /\ Get(e, "if").t = "obj"
    /\ IsExpression(Get(Get(e, "if"), "condition"))
    /\ HasKey(Get(e, "if"), "true") => IsExpression(Get(Get(e, "if"), "true"))
    /\ HasKey(Get(e, "if"), "false") => IsExpression(Get(Get(e, "if"), "false"))

\* FunctionDef (key "function") and MacroDef (key "macro") have one shape
IsDefinition(e, key) ==
    /\ e.t = "obj"
    /\ Get(e, key).t = "obj"
    /\ Get(Get(e, key), "name").t = "str"
    /\ Get(Get(e, key), "params").t = "arr"
    /\ Every(Get(Get(e, key), "params").vs, IsParam)
    /\ IsExpression(Get(Get(e, key), "body"))

IsFunctionDef(e) == IsDefinition(e, "function")
IsMacroDef(e) == IsDefinition(e, "macro")

IsImport(e) ==
    /\ e.t = "obj"
    /\ Get(e, "import").t = "obj"
    /\ Get(Get(e, "import"), "module").t = "str"
    /\ Get(Get(e, "import"), "symbols").t = "arr"
    /\ Every(Get(Get(e, "import"), "symbols").vs, IsString)

IsExpressionArray(v) == v.t = "arr" /\ Every(v.vs, IsExpression)

IsFunctionCall(e) ==
    e.t = "obj" /\ Len(e.ks) = 1 /\ Every(e.vs, IsExpressionArray)

IsRecord(v) == v.t = "obj"

IsSpecialForm(e) == e.t = "obj" /\ Every(e.vs, IsRecord)

IsExpression(e) ==
    \/ IsLiteral(e)
    \/ IsVarReference(e)
    \/ IsLetBinding(e)
    \/ IsDoDef(e)
    \/ IsIfDef(e)
    \/ IsFunctionDef(e)
    \/ IsMacroDef(e)
    \/ IsImport(e)
    \/ IsFunctionCall(e)
    \/ IsSpecialForm(e)

----------------------------------------------------------------------------
(* Program documents.  A schema document is kept by what the two checks of   *)
(* validateJsonSchema find: whether it is an object, and whether the schema  *)
(* validator accepts it.  The free-text name of a program is left out.       *)

SchemaDoc(isObject, accepted) == [isObject |-> isObject, accepted |-> accepted]

\* types?: absent, or the documents it declares
TypeDecl(present, docs) == [present |-> present, docs |-> docs]
NoTypes == TypeDecl(FALSE, <<>>)

\* modules?: absent, or the modules, each with its types?
ModuleDecl(present, mods) == [present |-> present, mods |-> mods]
NoModules == ModuleDecl(FALSE, <<>>)

ProgramDoc(version, types, modules, program) ==
    [jexl_version |-> version, types |-> types, modules |-> modules,
     program |-> program]

EmptyDoc == ProgramDoc("v0.1", NoTypes, NoModules, Arr(<<>>))

validateJsonSchema(schema) == schema.isObject /\ schema.accepted

\* A variant of validateProgramTypes: the types of the modules are not visited
validateProgramLevelTypes(program) ==
    program.types.present =>
        \A i \in 1..Len(program.types.docs) :
            validateJsonSchema(program.types.docs[i])

validateProgramTypes(program) ==
    /\ program.types.present =>
           \A i \in 1..Len(program.types.docs) :
               validateJsonSchema(program.types.docs[i])
    /\ program.modules.present =>
           \A m \in 1..Len(program.modules.mods) :
               program.modules.mods[m].present =>
                   \A i \in 1..Len(program.modules.mods[m].docs) :
                       validateJsonSchema(program.modules.mods[m].docs[i])

\* Value.Check(Program, program)
IsProgram(program) ==
    /\ program.jexl_version = "v0.1"
    /\ program.types.present =>
           \A i \in 1..Len(program.types.docs) : program.types.docs[i].isObject
    /\ program.modules.present =>
           \A m \in 1..Len(program.modules.mods) :
               program.modules.mods[m].present =>
                   \A i \in 1..Len(program.modules.mods[m].docs) :
                       program.modules.mods[m].docs[i].isObject
    /\ IsExpressionArray(program.program)

----------------------------------------------------------------------------
(* The expressions of the grammar, as the programs below write them *)

Ref(name) == Obj1("ref", Str(name))
Let(name, value) == Obj1("let", Obj(<<"name", "value">>, <<Str(name), value>>))
Do(exprs) == Obj1("do", Arr(exprs))
Call(target, args) == Obj1(target, Arr(args))
FunctionDef(name, params, body) ==
    Obj1("function", Obj(<<"name", "params", "body">>, <<Str(name), Arr(params), body>>))
MacroDef(name, params, body) ==
    Obj1("macro", Obj(<<"name", "params", "body">>, <<Str(name), Arr(params), body>>))
Import(module, symbols) ==
    Obj1("import", Obj(<<"module", "symbols">>, <<Str(module), Arr(symbols)>>))

\* if: a branch that is Undef is a key left out
If(condition, thenExpr, elseExpr) ==
    Obj1("if",
         Obj(<<"condition">>
               \o (IF thenExpr = Undef THEN <<>> ELSE <<"true">>)
               \o (IF elseExpr = Undef THEN <<>> ELSE <<"false">>),
             <<condition>>
               \o (IF thenExpr = Undef THEN <<>> ELSE <<thenExpr>>)
               \o (IF elseExpr = Undef THEN <<>> ELSE <<elseExpr>>)))

\* The macro of the schema test: unless(condition, body)
UnlessDef ==
    MacroDef("unless", <<Str("condition"), Str("body")>>,
             If(Ref("condition"), Undef, Ref("body")))

UnlessUse ==
    Call("unless", <<Call("equals", <<Num(1), Num(2)>>), Call("print", <<Str("x")>>)>>)

----------------------------------------------------------------------------
(* Bounds of the programs model-checked *)

MaxProg == 3      \* top-level expressions of a program of the general family
MaxParams == 2    \* parameters of the function of the call family
MaxArgs == 2      \* arguments of the call of the call family
MaxDepth == 3     \* nested user-function calls before the host's stack is full

SeqsUpTo(S, n) == UNION {[1..k -> S] : k \in 0..n}

\* Conditions of an if: every kind of value an evaluation can produce
Conditions ==
    {Null, Bool(FALSE), Bool(TRUE), Num(0), Num(1), Str(""), Str("a"),
     Call("print", <<>>), Call("divide", <<Num(0), Num(0)>>)}

\* Branches of an if: left out, or a literal
Branches == {Undef, Null, Bool(FALSE), Num(0), Str(""), Str("a"), Str("b")}

IfPrograms ==
    {<<If(c, th, el)>> : c \in Conditions, th \in Branches, el \in Branches}
      \cup {<<Let("x", c), If(Ref("x"), Str("a"), Str("b"))>> : c \in Conditions}

\* Parameters in both forms of the grammar: a bare name, a record name -> type
ParamForms == {Str("x"), Str("name"), Obj1("n", Str("integer"))}

ArgForms == {Num(1), Num(2), Call("print", <<Str("a")>>)}

Bodies == {Ref("x"), Ref("name"), Ref("n"), Call("print", <<Str("body")>>)}

CallPrograms ==
    {<<FunctionDef("f", ps, b), Call("f", as)>> :
        ps \in SeqsUpTo(ParamForms, MaxParams),
        as \in SeqsUpTo(ArgForms, MaxArgs),
        b \in Bodies}

\* print with a second key: an object no schema of the grammar accepts
TwoKeyPrint == Obj(<<"print", "extra">>, <<Arr(<<Str("a")>>), Num(1)>>)

GeneralExprs ==
    {Let("x", Num(0)),
     FunctionDef("g", <<>>, Ref("x")),
     FunctionDef("f", <<Str("x")>>, Call("g", <<>>)),
     FunctionDef("f", <<>>, Call("f", <<>>)),
     Call("f", <<Num(1)>>),
     Call("g", <<>>),
     Call("print", <<Ref("x")>>),
     UnlessDef,
     UnlessUse,
     Import("math", <<Str("square")>>),
     TwoKeyPrint}

GeneralPrograms == SeqsUpTo(GeneralExprs, MaxProg)

\* Lets in a function body, of a name an ancestor binds or not, called from
\* the global frame or from the frame of f, which binds x as its parameter
LetValues == {Num(5), Call("add", <<Ref("x"), Num(1)>>), Let("z", Num(2))}

LetPrograms ==
    {<<Let("x", Num(0)),
       FunctionDef("s", <<>>, Do(<<Let(n, v), Ref(n)>>)),
       FunctionDef("f", <<Str("x")>>, Do(<<Call("s", <<>>), Ref("x")>>)),
       c,
       Ref("x")>> :
        n \in {"x", "y"}, v \in LetValues,
        c \in {Call("s", <<>>), Call("f", <<Num(7)>>)}}

\* Arguments with an effect: a print, a let, a function definition
EffectArgs ==
    {Call("print", <<Str("a")>>), Call("print", <<Str("b")>>),
     Let("y", Num(1)), FunctionDef("h", <<>>, Num(1))}

\* Calls of a name nothing defines, of a builtin, and of a name an argument
\* of the call defines
OrderPrograms ==
    {<<Call(target, as)>> :
        target \in {"nope", "concat", "h"}, as \in SeqsUpTo(EffectArgs, MaxArgs)}

Programs ==
    IfPrograms \cup CallPrograms \cup GeneralPrograms \cup LetPrograms
      \cup OrderPrograms

GoodDoc == SchemaDoc(TRUE, TRUE)
BadDoc == SchemaDoc(TRUE, FALSE)
NotAnObject == SchemaDoc(FALSE, FALSE)
\* true: a schema for the validator, not an object for the Program schema
BooleanSchema == SchemaDoc(FALSE, TRUE)

TypeDecls ==
    {NoTypes, TypeDecl(TRUE, <<>>), TypeDecl(TRUE, <<GoodDoc>>),
     TypeDecl(TRUE, <<BadDoc>>), TypeDecl(TRUE, <<GoodDoc, BadDoc>>),
     TypeDecl(TRUE, <<NotAnObject>>), TypeDecl(TRUE, <<BooleanSchema>>)}

ModuleDecls ==
    {NoModules, ModuleDecl(TRUE, <<NoTypes>>),
     ModuleDecl(TRUE, <<TypeDecl(TRUE, <<GoodDoc>>)>>),
     ModuleDecl(TRUE, <<NoTypes, TypeDecl(TRUE, <<GoodDoc, BadDoc>>)>>)}

Versions == {"v0.1", "v0.2"}

\* Programs run under every header
HeaderPrograms ==
    {Undef, Arr(<<>>), Arr(<<Call("print", <<Str("a")>>)>>),
     Arr(<<Let("x", Num(1)), TwoKeyPrint>>), Arr(<<UnlessDef, UnlessUse>>)}

ProgramDocs ==
    {ProgramDoc("v0.1", NoTypes, NoModules, Arr(p)) : p \in Programs}
      \cup {ProgramDoc(v, ts, ms, p) :
              v \in Versions, ts \in TypeDecls, ms \in ModuleDecls,
              p \in HeaderPrograms}

----------------------------------------------------------------------------
(* runProgram *)

NoOutcome == [expr |-> Undef, v |-> Undef, e |-> NoErr, tr |-> <<>>, h |-> <<>>]

Init ==
    /\ pc = "start"
    /\ prog \in ProgramDocs
    /\ genv = NewEnvironment(0)
    /\ out = <<>>
    /\ idx = 0
    /\ last = NoOutcome
    /\ error = NoErr
    /\ xmacros = EmptyMap
    /\ xin = Undef
    /\ xout = Undef
    /\ xpc = "idle"
    /\ gin = EmptyDoc
    /\ gerrors = {}
    /\ gpc = "idle"

\* runProgram up to its loop: the type check, the global environment, the
\* check that there is a program
Start ==
    /\ pc = "start"
    /\ IF ~validateProgramTypes(prog)
       THEN /\ pc' = "failed"
            /\ error' = Err("InvalidProgramTypes", "", 0, 0)
            /\ genv' = genv
       ELSE IF ~Truthy(prog.program)
       THEN /\ pc' = "failed"
            /\ error' = Err("NoProgram", "", 0, 0)
            /\ genv' = createGlobalEnv
       ELSE /\ pc' = "running"
            /\ error' = error
            /\ genv' = createGlobalEnv
    /\ UNCHANGED <<prog, out, idx, last, xmacros, xin, xout, xpc,
                 gin, gerrors, gpc>>

\* One turn of the loop: evaluate(expr, env) in the global environment; a throw
\* ends runProgram
Step ==
    /\ pc = "running"
    /\ idx < Len(prog.program.vs)
    /\ LET expr == prog.program.vs[idx + 1]
           r == evaluate(expr, 1, [h |-> <<genv>>, out |-> out, tr |-> <<>>], MaxDepth)
       IN /\ genv' = r.s.h[1]
          /\ out' = r.s.out
          /\ last' = [expr |-> expr, v |-> r.v, e |-> r.e, tr |-> r.s.tr, h |-> r.s.h]
          /\ idx' = idx + 1
          /\ pc' = IF Failed(r) THEN "failed" ELSE "running"
          /\ error' = r.e
    /\ UNCHANGED <<prog, xmacros, xin, xout, xpc,
                 gin, gerrors, gpc>>

\* The loop is over: runProgram returns
Finish ==
    /\ pc = "running"
    /\ idx = Len(prog.program.vs)
    /\ pc' = "done"
    /\ UNCHANGED <<prog, genv, out, idx, last, error, xmacros, xin, xout, xpc,
                 gin, gerrors, gpc>>

Next == Start \/ Step \/ Finish

Spec == Init /\ [][Next]_vars

----------------------------------------------------------------------------
(* expand, applied to bounded macro maps and expression trees *)

MaxMacros == 2        \* macros of a macro map
MaxXArgs == 2         \* arguments of an invocation
MaxExpandDepth == 12  \* nested calls of expand before the host's stack is full

\* A special form that holds a sequence directly inside a sequence
Rows(e) == Obj1("data", Obj1("rows", Arr(<<Arr(<<Num(1), e>>)>>)))

\* A special form that holds a sequence of one element inside a sequence
SingleRow(e) == Obj1("data", Obj1("rows", Arr(<<Arr(<<e>>)>>)))

MacroCatalog ==
    {UnlessDef,
     MacroDef("twice", <<Str("x")>>, Do(<<Ref("x"), Ref("x")>>)),
     MacroDef("swap", <<Str("x"), Obj1("y", Str("number"))>>,
              Call("pair", <<Ref("y"), Ref("x")>>)),
     MacroDef("wrap", <<Str("x")>>, Call("unless", <<Ref("x"), Rows(Ref("x"))>>)),
     MacroDef("loop", <<>>, Call("loop", <<>>)),
     MacroDef("n", <<>>, Num(7)),
     MacroDef("ref", <<>>, Num(8)),
     MacroDef("condition", <<>>, Num(9)),
     MacroDef("0", <<>>, SingleRow(Num(1)))}

MacroName(def) == Get(Get(def, "macro"), "name").s

\* macros.set(name, def) for every definition of a set of distinct names
MacroMapOf(defs) ==
    [name \in {MacroName(d) : d \in defs} |->
        CHOOSE d \in defs : MacroName(d) = name]

MacroMaps ==
    {MacroMapOf(defs) : defs \in {D \in SUBSET MacroCatalog : Cardinality(D) <= MaxMacros}}

MacroNames ==
    {"unless", "twice", "swap", "wrap", "loop", "n", "ref", "condition", "0"}

XArgs == {Num(1), Ref("y"), Call("twice", <<Ref("x")>>)}

Invocations ==
    {Call(m, as) : m \in MacroNames \ {"ref"}, as \in SeqsUpTo(XArgs, MaxXArgs)}

XInner == Invocations \cup {UnlessUse, Num(1), Ref("x")}

XExprs ==
    XInner
      \cup {Let("x", e) : e \in XInner}
      \cup {If(e, Undef, Undef) : e \in XInner}
      \cup {If(Bool(TRUE), e, Num(0)) : e \in XInner}
      \cup {FunctionDef("f", <<Obj1("n", Str("integer")), Str("x")>>, e) : e \in XInner}
      \cup {Call("add", <<e, Num(1)>>) : e \in XInner}
      \cup {Rows(e) : e \in XInner}
      \cup {Obj(<<"unless", "extra">>, <<Arr(<<e>>), Num(1)>>) : e \in XInner}
      \cup {Obj1("unless", Obj(<<"condition", "body">>, <<e, Num(1)>>)) : e \in XInner}

InitExpand ==
    /\ pc = "unused"
    /\ prog = EmptyDoc
    /\ genv = NewEnvironment(0)
    /\ out = <<>>
    /\ idx = 0
    /\ last = NoOutcome
    /\ error = NoErr
    /\ xmacros \in MacroMaps
    /\ xin \in XExprs
    /\ xout = Undef
    /\ xpc = "idle"
    /\ gin = EmptyDoc
    /\ gerrors = {}
    /\ gpc = "idle"

\* A call expand(xin, xmacros)
Expand ==
    /\ xpc = "idle"
    /\ LET r == expand(xin, xmacros, MaxExpandDepth)
       IN /\ xout' = r
          /\ xpc' = CASE r = Overflow -> "overflow"
                      [] r = Raised -> "raised"
                      [] OTHER -> "returned"
    /\ UNCHANGED <<pc, prog, genv, out, idx, last, error, xmacros, xin,
                   gin, gerrors, gpc>>

NextExpand == Expand

SpecExpand == InitExpand /\ [][NextExpand]_vars

----------------------------------------------------------------------------
(* The grammar check, applied to bounded programs of objects of several keys *)

MaxGProg == 2     \* top-level expressions of a program checked

ReservedKeys == {"ref", "let", "do", "if", "function", "macro", "import"}

GKeys == {<<"call">>, <<"call", "args">>, <<"a", "ref">>}

GValues ==
    {Str("add"), Arr(<<Num(1), Num(2)>>), Obj(<<>>, <<>>), Obj1("k", Num(1))}

GExprs ==
    {Num(1), Obj(<<>>, <<>>)}
      \cup UNION {{Obj(ks, vs) : vs \in [1..Len(ks) -> GValues]} : ks \in GKeys}

GPrograms == SeqsUpTo(GExprs, MaxGProg)

InitGrammar ==
    /\ pc = "unused"
    /\ prog = EmptyDoc
    /\ genv = NewEnvironment(0)
    /\ out = <<>>
    /\ idx = 0
    /\ last = NoOutcome
    /\ error = NoErr
    /\ xmacros = EmptyMap
    /\ xin = Undef
    /\ xout = Undef
    /\ xpc = "unused"
    /\ gin \in {ProgramDoc("v0.1", NoTypes, NoModules, Arr(p)) : p \in GPrograms}
    /\ gerrors = {}
    /\ gpc = "idle"

\* Value.Errors(Program, gin): one error for every top-level expression that no
\* schema of the Expression union accepts, at the path /program/i
CheckProgram ==
    /\ gpc = "idle"
    /\ gerrors' = {i \in 0..(Len(gin.program.vs) - 1) :
                      ~IsExpression(gin.program.vs[i + 1])}
    /\ gpc' = "checked"
    /\ UNCHANGED <<pc, prog, genv, out, idx, last, error, xmacros, xin, xout, xpc,
                   gin>>

NextGrammar == CheckProgram

SpecGrammar == InitGrammar /\ [][NextGrammar]_vars

----------------------------------------------------------------------------
(* Properties of the evaluator and of runProgram, under Spec *)

IfOf(e) == Get(e, "if")
IsIf(e) == e.t = "obj" /\ HasKey(e, "if")

\* The values the host takes for false
HostFalsy == {Bool(FALSE), Null, Num(0), Str(""), NaN, Undef}

\* What a condition of IfPrograms evaluates to: print returns undefined, 0/0 is
\* NaN, x is the global the let before the if has bound, a literal is itself
ConditionValue(c) ==
    CASE c = Call("print", <<>>) -> Undef
      [] c = Call("divide", <<Num(0), Num(0)>>) -> NaN
      [] c = Ref("x") -> genv.vars["x"]
      [] OTHER -> c

\* An if whose two branches are present and tell which one was selected
BranchesTellApart(e) ==
    /\ IsIf(e)
    /\ {Get(IfOf(e), "true"), Get(IfOf(e), "false")} = {Str("a"), Str("b")}

\* C1 as stated: an If selects the else-branch only when the condition
\* evaluates to boolean false or null, and the then-branch for every other
\* value, 0 and the empty string included.
C1_ElseOnlyOnFalseOrNull ==
    (idx > 0 /\ BranchesTellApart(last.expr)) =>
        LET c == ConditionValue(Get(IfOf(last.expr), "condition"))
        IN /\ ~Failed(last)
           /\ last.v = IF c \in {Bool(FALSE), Null}
                       THEN Get(IfOf(last.expr), "false")
                       ELSE Get(IfOf(last.expr), "true")

\* C1 amended: an If selects the else-branch exactly when the condition
\* evaluates to a value the host takes for false (boolean false, null, 0, the
\* empty string, NaN, undefined), and the then-branch for every other value.
C1_ElseOnHostFalsy ==
    (idx > 0 /\ BranchesTellApart(last.expr)) =>
        LET c == ConditionValue(Get(IfOf(last.expr), "condition"))
        IN /\ ~Failed(last)
           /\ last.v = IF c \in HostFalsy
                       THEN Get(IfOf(last.expr), "false")
                       ELSE Get(IfOf(last.expr), "true")

\* {if: {condition: 0, true: "a", false: "b"}} has been evaluated, to "b"
C1_Witness ==
    /\ idx > 0
    /\ last.expr = If(Num(0), Str("a"), Str("b"))
    /\ last.v = Str("b")

\* The calls of the latest evaluation: the positions of the log where a frame
\* was created, and those where a body was entered
FrameEvents == {i \in DOMAIN last.tr : last.tr[i].ev = "frame"}
EnterEvents == {i \in DOMAIN last.tr : last.tr[i].ev = "enter"}

DistinctNames(params) ==
    \A i, j \in 1..Len(params) :
        i # j => getParamName(params[i]) # getParamName(params[j])

\* C2: a user function called with as many arguments as it has parameters
\* binds every parameter name, in either form of the grammar, to the argument
\* of its position in the frame of the call, and evaluates the body there.
C2_ParametersBoundByPosition ==
    last.e.kind # "RangeError" =>
        \A i \in FrameEvents :
            LET c == last.tr[i]
            IN (/\ c.params.t = "arr"
                /\ Every(c.params.vs, IsParam)
                /\ DistinctNames(c.params.vs)
                /\ Len(c.params.vs) = Len(c.args))
               => \E j \in EnterEvents :
                     /\ last.tr[j].frame = c.frame
                     /\ \A k \in 1..Len(c.args) :
                          LET name == getParamName(c.params.vs[k]).s
                          IN /\ name \in DOMAIN last.tr[j].vars
                             /\ last.tr[j].vars[name] = c.args[k]

\* C3: a call of a user function with a number of arguments other than its
\* number of parameters throws an error that names the function, the expected
\* count and the actual count, and the body is not evaluated.
C3_ArityMismatchReported ==
    \A i \in FrameEvents :
        LET c == last.tr[i]
        IN (c.params.t = "arr" /\ Len(c.params.vs) # Len(c.args)) =>
              /\ last.e = Err("ArityMismatch", c.name, Len(c.params.vs), Len(c.args))
              /\ error = last.e
              /\ pc = "failed"
              /\ \A j \in EnterEvents : last.tr[j].frame # c.frame
              /\ \A k \in 1..Len(out) : out[k] # <<Str("body")>>

\* A function of two parameters has been called with one argument
C3_Witness ==
    /\ pc = "failed"
    /\ error.kind = "ArityMismatch"
    /\ error.expected = 2
    /\ error.actual = 1

\* C4: runProgram evaluates nothing, and so prints, binds and defines
\* nothing, for a program that fails the grammar or the type-schema check.
C4_InvalidProgramNotEvaluated ==
    (~IsProgram(prog) \/ ~validateProgramTypes(prog)) =>
        /\ idx = 0
        /\ out = <<>>
        /\ genv.vars = EmptyMap

\* C5: runProgram expands the macros before it evaluates, so that the
\* evaluator never receives a MacroDef and no run fails on a macro form.
C5_MacrosExpandedBeforeEvaluation ==
    /\ idx > 0 => ~HasKey(last.expr, "macro")
    /\ error.kind # "MacroNotImplemented"

\* C10 as stated: the frame of a user-function call has the frame the function
\* was defined in as parent.
C10_ParentIsDefiningScope ==
    \A i \in FrameEvents :
        last.h[last.tr[i].frame].parent = last.tr[i].definedAt

\* f(x) calls g(), whose body reads x, which only the frame of f binds
CallerBindsX ==
    <<FunctionDef("g", <<>>, Ref("x")),
      FunctionDef("f", <<Str("x")>>, Call("g", <<>>)),
      Call("f", <<Num(1)>>)>>

\* C10 amended: the frame of a user-function call has the environment of the
\* call as parent, so that a free variable of the body resolves through the
\* caller's chain and a variable bound only in the caller's frame is visible.
C10_ParentIsCallerEnv ==
    /\ \A i \in FrameEvents :
          last.h[last.tr[i].frame].parent = last.tr[i].callEnv
    /\ (prog.program = Arr(CallerBindsX) /\ idx = 3) =>
          ~Failed(last) /\ last.v = Num(1)

\* g has been called from the frame of f, not the frame that defines g, and
\* has read the parameter of f
C10_Witness ==
    /\ prog.program = Arr(CallerBindsX)
    /\ idx = 3
    /\ \E i \in FrameEvents : last.tr[i].callEnv # last.tr[i].definedAt
    /\ last.v = Num(1)

\* The frames above a frame, up to the global one
RECURSIVE Ancestors(_, _)
Ancestors(h, env) ==
    IF h[env].parent = 0 THEN {}
    ELSE {h[env].parent} \cup Ancestors(h, h[env].parent)

LetEvents == {i \in DOMAIN last.tr : last.tr[i].ev = "let"}

\* C11: a let returns the value it evaluated and binds the name to it in the
\* current frame, where a reference to the name then reads it; the variables
\* of every frame above are what they were before the let, also when one of
\* them binds the same name.
C11_LetWritesCurrentFrameOnly ==
    /\ \A i \in LetEvents :
          LET l == last.tr[i]
          IN /\ getVar(l.after, l.frame, l.name) =
                    [found |-> TRUE, v |-> l.value, at |-> l.frame]
             /\ \A a \in Ancestors(l.after, l.frame) :
                    l.after[a].vars = l.before[a].vars
    /\ (idx > 0 /\ HasKey(last.expr, "let") /\ ~Failed(last)) =>
          /\ last.v = last.tr[Len(last.tr)].value
          /\ IsLiteral(Get(Get(last.expr, "let"), "value")) =>
                 last.v = Get(Get(last.expr, "let"), "value")
    /\ (idx = 5 /\ prog.program.vs \in LetPrograms) =>
          ~Failed(last) /\ last.v = Num(0)

\* s, called from the frame of f, has bound x, which the frame of f and the
\* global frame bind too; the global x is still 0
C11_Witness ==
    /\ idx = 4
    /\ prog.program.vs \in LetPrograms
    /\ \E i \in LetEvents :
          /\ last.tr[i].name = "x"
          /\ Cardinality(Ancestors(last.tr[i].after, last.tr[i].frame)) = 2
          /\ \A a \in Ancestors(last.tr[i].after, last.tr[i].frame) :
                 "x" \in DOMAIN last.tr[i].after[a].vars
    /\ genv.vars["x"] = Num(0)

\* Every schema document a program declares, at the program level and in the
\* types of its modules
DeclaredDocs(program) ==
    (IF program.types.present
     THEN {program.types.docs[i] : i \in DOMAIN program.types.docs}
     ELSE {})
      \cup (IF program.modules.present
            THEN UNION {IF program.modules.mods[m].present
                        THEN {program.modules.mods[m].docs[i] :
                                 i \in DOMAIN program.modules.mods[m].docs}
                        ELSE {} : m \in DOMAIN program.modules.mods}
            ELSE {})

\* C12: for a program of the Program shape, validateProgramTypes is true
\* exactly when the schema validator accepts every document declared at the
\* program level and in every module; it is true when the program declares
\* neither types nor modules.
C12_TypesValidIffEveryDocumentAccepted ==
    (pc # "start" /\ IsProgram(prog)) =>
        /\ (error.kind = "InvalidProgramTypes")
              <=> (\E d \in DeclaredDocs(prog) : ~d.accepted)
        /\ (error.kind = "InvalidProgramTypes") => (pc = "failed" /\ idx = 0)
        /\ (~prog.types.present /\ ~prog.modules.present) =>
              error.kind # "InvalidProgramTypes"

\* A program of the Program shape whose only invalid document is in a module
\* has been rejected
C12_Witness ==
    /\ pc = "failed"
    /\ error.kind = "InvalidProgramTypes"
    /\ IsProgram(prog)
    /\ prog.types.present
    /\ \A i \in DOMAIN prog.types.docs : prog.types.docs[i].accepted
    /\ \E d \in DeclaredDocs(prog) : ~d.accepted

\* C14: an If whose selected branch is present evaluates to the value of that
\* branch, the literals false, null, 0 and "" included; it evaluates to null
\* only when the selected branch is left out.
C14_PresentBranchIsEvaluated ==
    (idx > 0 /\ IsIf(last.expr) /\ prog.program.vs \in IfPrograms) =>
        LET f == IfOf(last.expr)
            c == ConditionValue(Get(f, "condition"))
            key == IF c \in HostFalsy THEN "false" ELSE "true"
        IN /\ ~Failed(last)
           /\ last.v = IF HasKey(f, key) THEN Get(f, key) ELSE Null

IsPrint(e) == HasKey(e, "print")

\* C15: a call evaluates its arguments left to right, each once, before it
\* looks the target up: whether the target resolves or not, every print of
\* the arguments has printed, in order, and every let and function
\* definition of the arguments has taken effect.
C15_ArgumentsEvaluatedBeforeLookup ==
    (idx = 1 /\ prog.program.vs \in OrderPrograms) =>
        LET args == last.expr.vs[1].vs
            prints == SelectSeq(args, IsPrint)
        IN /\ out = [i \in 1..Len(prints) |-> prints[i].vs[1].vs]
           /\ (\E i \in 1..Len(args) : HasKey(args[i], "let")) =>
                 ("y" \in DOMAIN genv.vars /\ genv.vars["y"] = Num(1))
           /\ (\E i \in 1..Len(args) : HasKey(args[i], "function")) =>
                 "h" \in DOMAIN genv.functions

----------------------------------------------------------------------------
(* Properties of the grammar, under SpecGrammar *)

\* An object of two keys or more, none of them reserved
SeveralKeysNoneReserved(e) ==
    /\ e.t = "obj"
    /\ Len(e.ks) >= 2
    /\ \A i \in 1..Len(e.ks) : e.ks[i] \notin ReservedKeys

\* C13: the grammar rejects, at its path in the program, every object of two
\* keys or more none of which is reserved, whatever the values of the keys.
C13_SeveralKeysRejected ==
    gpc = "checked" =>
        \A i \in 0..(Len(gin.program.vs) - 1) :
            SeveralKeysNoneReserved(gin.program.vs[i + 1]) => i \in gerrors

----------------------------------------------------------------------------
(* Properties of expand, under SpecExpand *)

\* No object of one key, at any depth, is keyed by a macro name
RECURSIVE NoInvocationLeft(_, _)
NoInvocationLeft(v, macros) ==
    /\ (v.t = "obj" /\ Len(v.ks) = 1) => v.ks[1] \notin DOMAIN macros
    /\ \A i \in 1..Len(v.vs) : NoInvocationLeft(v.vs[i], macros)

\* No key of any object, at any depth, is a macro name
RECURSIVE NoKeyIsMacroName(_, _)
NoKeyIsMacroName(v, macros) ==
    /\ v.t = "obj" => \A i \in 1..Len(v.ks) : v.ks[i] \notin DOMAIN macros
    /\ \A i \in 1..Len(v.vs) : NoKeyIsMacroName(v.vs[i], macros)

\* No sequence is an element of a sequence
RECURSIVE NoNestedSequence(_)
NoNestedSequence(v) ==
    /\ v.t = "arr" => \A i \in 1..Len(v.vs) : v.vs[i].t # "arr"
    /\ \A i \in 1..Len(v.vs) : NoNestedSequence(v.vs[i])

\* C6: a tree expand returns holds no one-key object keyed by a name of the
\* macro map, whatever the shape of the invocations expanded.
C6_NoInvocationAfterExpand ==
    xpc = "returned" => NoInvocationLeft(xout, xmacros)

\* unless, of two parameters, has been expanded on one argument that is itself
\* an invocation
C6_Witness ==
    /\ xpc = "returned"
    /\ xin = Call("unless", <<Call("twice", <<Ref("x")>>)>>)
    /\ {"unless", "twice"} \subseteq DOMAIN xmacros

\* C7: expand returns a tree in which no key is a macro name as it is: the
\* same keys, sequences and scalars at every depth.
C7_UnchangedWithoutMacroNames ==
    (xpc = "returned" /\ NoKeyIsMacroName(xin, xmacros)) => xout = xin

\* The body with every {ref: p_i} replaced by a_i, all at once, and nothing
\* else changed
RECURSIVE ReplaceRefs(_, _, _)
ReplaceRefs(e, params, args) ==
    IF /\ e.t = "obj"
       /\ e.ks = <<"ref">>
       /\ \E i \in 1..Len(params) : getParamName(params[i]) = e.vs[1]
    THEN args[CHOOSE i \in 1..Len(params) : getParamName(params[i]) = e.vs[1]]
    ELSE IF e.t = "obj"
    THEN Obj(e.ks, [i \in 1..Len(e.vs) |-> ReplaceRefs(e.vs[i], params, args)])
    ELSE IF e.t = "arr"
    THEN Arr([i \in 1..Len(e.vs) |-> ReplaceRefs(e.vs[i], params, args)])
    ELSE e

\* {m: [a1..an]} for a macro m of n parameters of distinct names
IsFullInvocation(e, macros) ==
    /\ e.t = "obj"
    /\ IsInvocation(e, macros)
    /\ e.vs[1].t = "arr"
    /\ LET params == Get(Get(macros[e.ks[1]], "macro"), "params")
       IN /\ params.t = "arr"
          /\ Every(params.vs, IsParam)
          /\ DistinctNames(params.vs)
          /\ Len(params.vs) = Len(e.vs[1].vs)

UnlessExpanded ==
    If(Call("equals", <<Num(1), Num(2)>>), Undef, Call("print", <<Str("x")>>))

\* C8: the expansion of {m: [a1..an]} is the expansion of the body of m with
\* every {ref: p_i} replaced by a_i, all parameters at once; where that body
\* holds no macro name it is that body itself.
C8_InvocationSubstitutesArguments ==
    (xpc = "returned" /\ IsFullInvocation(xin, xmacros)) =>
        LET def == Get(xmacros[xin.ks[1]], "macro")
            replaced == ReplaceRefs(Get(def, "body"), Get(def, "params").vs,
                                    xin.vs[1].vs)
        IN /\ xout = expand(replaced, xmacros, MaxExpandDepth)
           /\ (NoKeyIsMacroName(replaced, xmacros) /\ NoNestedSequence(replaced))
                 => xout = replaced
           /\ xin = UnlessUse => xout = UnlessExpanded

\* The unless of the schema test has been expanded
C8_Witness ==
    /\ xpc = "returned"
    /\ xin = UnlessUse
    /\ "unless" \in DOMAIN xmacros
    /\ xout = UnlessExpanded

\* C9: whatever the names of the macros, expand returns a variable reference
\* as it is, and a function definition, a let and an if with the name, the
\* parameter list and the keys of the inner record as they were.
C9_FormsLeftIntact ==
    xpc = "returned" =>
        /\ IsVarReference(xin) => xout = xin
        /\ IsFunctionDef(xin) =>
              /\ Keys(xout) = <<"function">>
              /\ Get(Get(xout, "function"), "name") = Get(Get(xin, "function"), "name")
              /\ Get(Get(xout, "function"), "params") = Get(Get(xin, "function"), "params")
        /\ IsLetBinding(xin) =>
              /\ Keys(xout) = <<"let">>
              /\ Keys(Get(xout, "let")) = <<"name", "value">>
              /\ Get(Get(xout, "let"), "name") = Get(Get(xin, "let"), "name")
        /\ IsIfDef(xin) =>
              /\ Keys(xout) = <<"if">>
              /\ Keys(Get(xout, "if")) = Keys(Get(xin, "if"))

\* An object of the one key name, at any depth of e
RECURSIVE HoldsInvocationOf(_, _)
HoldsInvocationOf(e, name) ==
    \/ e.t = "obj" /\ e.ks = <<name>>
    \/ \E i \in 1..Len(e.vs) : HoldsInvocationOf(e.vs[i], name)

MacroBody(macros, m) == Get(Get(macros[m], "macro"), "body")

\* The macros the body of m holds an invocation of, directly or through the
\* bodies of at most k macros
RECURSIVE Reaches(_, _, _)
Reaches(macros, m, k) ==
    IF k = 0 THEN {}
    ELSE LET direct == {n \in DOMAIN macros :
                           HoldsInvocationOf(MacroBody(macros, m), n)}
         IN direct \cup UNION {Reaches(macros, n, k - 1) : n \in direct}

NoMacroInvokesItself(macros) ==
    \A m \in DOMAIN macros : m \notin Reaches(macros, m, Cardinality(DOMAIN macros))

\* C16: expand returns or throws, and does not recurse without end, whenever
\* no macro body holds, directly or through other bodies, an invocation of
\* its own macro.
C16_ExpandTerminatesWithoutRecursion ==
    (xpc # "idle" /\ NoMacroInvokesItself(xmacros)) => xpc # "overflow"


============================================================================
